---- MODULE Spec2Model ----
(***************************************************************************)
(* Yandex.Weather sensor platform (custom_components/yandex_weather/       *)
(* sensor.py): the descriptor table WEATHER_SENSORS, async_setup_entry and *)
(* the entity adapter YandexWeatherSensor, together with the part of the   *)
(* updater (WeatherUpdater) and of the entity lifecycle that the sensor    *)
(* talks to.                                                               *)
(*                                                                         *)
(* Strings are sequences of text fragments; the fragment "-" is the dash   *)
(* character, every other fragment is a run of characters without a dash.  *)
(***************************************************************************)
EXTENDS FiniteSets, Integers, Sequences, TLC

VARIABLES
    config_entry,         \* the ConfigEntry handed to async_setup_entry
    entities,             \* the list given to async_add_entities (<<>> before setup)
    added,                \* indexes of the entities currently added to hass
    on_remove,            \* per entity: the callbacks registered with async_on_remove
    listeners,            \* updater: how often each entity's callback is registered
    last_update_success,  \* updater: success flag of the last fetch
    weather_data,         \* updater: the snapshot, "fact" -> (key -> value)
    refresh_requests,     \* updater: async_request_refresh calls not yet served
    ret                   \* the last operation and what it returned

vars == <<config_entry, entities, added, on_remove, listeners,
          last_update_success, weather_data, refresh_requests, ret>>

----------------------------------------------------------------------------
(* Bounds of the model *)

\* longest config-entry unique id, in fragments
MaxIdLen == 4
\* number of distinct payload versions the API can deliver
MaxVersion == 2
\* refresh requests the updater keeps pending
MaxRequests == 1
\* entities added to hass at the same time
MaxAdded == 3

----------------------------------------------------------------------------
(* Strings *)

Dash == "-"

\* fragments config-entry unique ids are made of
IdAlphabet == {"a", Dash}

\* f"{a}-{b}"
JoinDash(a, b) == a \o <<Dash>> \o b

\* f"{a} {b}"
JoinSpace(a, b) == a \o <<" ">> \o b

\* the first segment of s: everything before its first dash
RECURSIVE FirstSegment(_)
FirstSegment(s) ==
    IF s = <<>> \/ Head(s) = Dash THEN <<>>
    ELSE <<Head(s)>> \o FirstSegment(Tail(s))

\* s after its first dash (only used when s has a dash)
RECURSIVE AfterFirstDash(_)
AfterFirstDash(s) ==
    IF Head(s) = Dash THEN Tail(s) ELSE AfterFirstDash(Tail(s))

HasDash(s) == \E i \in 1..Len(s) : s[i] = Dash

\* str.split("-"): the segments between the dashes, empty segments included
RECURSIVE Split(_)
Split(s) ==
    IF HasDash(s) THEN <<FirstSegment(s)>> \o Split(AfterFirstDash(s))
    ELSE <<s>>

----------------------------------------------------------------------------
(* The names imported from const.py.  Each string constant is one fragment, *)
(* named after the constant: the keys are distinct and hold no dash.       *)

ATTR_API_TEMPERATURE == <<"ATTR_API_TEMPERATURE">>
ATTR_API_FEELS_LIKE_TEMPERATURE == <<"ATTR_API_FEELS_LIKE_TEMPERATURE">>
ATTR_API_WIND_SPEED == <<"ATTR_API_WIND_SPEED">>
ATTR_API_WIND_BEARING == <<"ATTR_API_WIND_BEARING">>
ATTR_API_HUMIDITY == <<"ATTR_API_HUMIDITY">>
ATTR_API_PRESSURE == <<"ATTR_API_PRESSURE">>
ATTR_API_CONDITION == <<"ATTR_API_CONDITION">>
ATTR_API_WEATHER_TIME == <<"ATTR_API_WEATHER_TIME">>
ATTR_API_YA_CONDITION == <<"ATTR_API_YA_CONDITION">>
ATTR_API_PRESSURE_MMHG == <<"ATTR_API_PRESSURE_MMHG">>
DOMAIN_NAME == <<"DOMAIN">>
MANUFACTURER == <<"MANUFACTURER">>
DEFAULT_NAME == <<"DEFAULT_NAME">>
ENTRY_NAME == "ENTRY_NAME"
UPDATER == "UPDATER"

----------------------------------------------------------------------------
(* Values *)

\* Python's None
None == <<<<"None">>, 0>>

\* an icon string
Icon(name) == <<<<name>>, 0>>

\* the value the API delivers under key k in payload version v
Value(k, v) == <<k, v>>

\* an exception raised by a read
Raised(what) == <<<<"raised", what>>, 0>>

\* dict.get(k, default)
Get(d, k, default) == IF k \in DOMAIN d THEN d[k] ELSE default

----------------------------------------------------------------------------
(* The descriptor table *)

WEATHER_SENSORS == <<
    [key |-> ATTR_API_TEMPERATURE, name |-> <<"Temperature">>,
     icon |-> None, entity_registry_enabled_default |-> FALSE],
    [key |-> ATTR_API_FEELS_LIKE_TEMPERATURE, name |-> <<"Feels like temperature">>,
     icon |-> None, entity_registry_enabled_default |-> FALSE],
    [key |-> ATTR_API_WIND_SPEED, name |-> <<"Wind speed">>,
     icon |-> None, entity_registry_enabled_default |-> FALSE],
    [key |-> ATTR_API_WIND_BEARING, name |-> <<"Wind bearing">>,
     icon |-> None, entity_registry_enabled_default |-> FALSE],
    [key |-> ATTR_API_HUMIDITY, name |-> <<"Humidity">>,
     icon |-> None, entity_registry_enabled_default |-> FALSE],
    [key |-> ATTR_API_PRESSURE, name |-> <<"Pressure">>,
     icon |-> None, entity_registry_enabled_default |-> FALSE],
    [key |-> ATTR_API_CONDITION, name |-> <<"Condition">>,
     icon |-> None, entity_registry_enabled_default |-> FALSE],
    [key |-> ATTR_API_WEATHER_TIME, name |-> <<"Data update time">>,
     icon |-> None, entity_registry_enabled_default |-> TRUE],
    [key |-> ATTR_API_YA_CONDITION, name |-> <<"Condition">>,
     icon |-> None, entity_registry_enabled_default |-> TRUE],
    [key |-> ATTR_API_PRESSURE_MMHG, name |-> <<"Pressure mmHg">>,
     icon |-> Icon("mdi:gauge"), entity_registry_enabled_default |-> TRUE]
>>

----------------------------------------------------------------------------
(* The hass.data registry and the config entries *)

EntryIds == {"entry1", "entry2"}

\* hass.data[DOMAIN]: per config entry, its name and its updater
HassData ==
    [e \in EntryIds |->
        (ENTRY_NAME :> <<"Home ", e>>) @@ (UPDATER :> <<"WeatherUpdater", e>>)]

\* strings over IdAlphabet of length at most n
RECURSIVE Strings(_)
Strings(n) ==
    IF n = 0 THEN {<<>>}
    ELSE Strings(n - 1) \cup
         {Append(s, c) : s \in {t \in Strings(n - 1) : Len(t) = n - 1}, c \in IdAlphabet}

\* the unique ids a config entry may carry: non-empty strings
UniqueIds == {s \in Strings(MaxIdLen) : s # <<>>}

ConfigEntries == [entry_id : EntryIds, unique_id : UniqueIds]

\* a config entry as the integration's config flow names it: "<lat>-<lon>"
DefaultEntry == [entry_id |-> "entry1", unique_id |-> <<"a", Dash, "a">>]

----------------------------------------------------------------------------
(* YandexWeatherSensor.__init__ *)

\* split_unique_id[0], split_unique_id[1]; IndexError when a segment is missing
DeviceIdentifier(unique_id) ==
    LET split_unique_id == Split(unique_id) IN
    IF Len(split_unique_id) < 2 THEN Raised("IndexError")
    ELSE <<DOMAIN_NAME, JoinDash(split_unique_id[1], split_unique_id[2])>>

YandexWeatherSensor(name, unique_id, description, updater) ==
    [entity_description |-> description,
     _updater |-> updater,
     _attr_name |-> JoinSpace(name, description.name),
     _attr_unique_id |-> unique_id,
     _attr_device_info |->
        [identifiers |-> {DeviceIdentifier(unique_id)},
         manufacturer |-> MANUFACTURER,
         name |-> DEFAULT_NAME]]

\* a setup that builds the id from the entry id instead of the unique id
SensorUniqueId_entry_id(entry, description) ==
    JoinDash(<<entry.entry_id>>, description.key)

\* the unique id async_setup_entry passes for one description
SensorUniqueId(entry, description) == JoinDash(entry.unique_id, description.key)

\* a setup that walks the table backwards
SetupEntities_reversed(entry) ==
    LET domain_data == HassData[entry.entry_id]
        n == Len(WEATHER_SENSORS) IN
    [i \in 1..n |->
        YandexWeatherSensor(domain_data[ENTRY_NAME],
                            JoinDash(entry.unique_id, WEATHER_SENSORS[n + 1 - i].key),
                            WEATHER_SENSORS[n + 1 - i],
                            domain_data[UPDATER])]

\* the list comprehension of async_setup_entry
SetupEntities(entry) ==
    LET domain_data == HassData[entry.entry_id] IN
    [i \in 1..Len(WEATHER_SENSORS) |->
        YandexWeatherSensor(domain_data[ENTRY_NAME],
                            SensorUniqueId(entry, WEATHER_SENSORS[i]),
                            WEATHER_SENSORS[i],
                            domain_data[UPDATER])]

----------------------------------------------------------------------------
(* The updater *)

FactKeys ==
    {WEATHER_SENSORS[i].key : i \in 1..Len(WEATHER_SENSORS)}
        \cup {ATTR_API_YA_CONDITION \o <<"_icon">>}

\* the key sets a payload may lack: none, any single key, every key
MissingSets == {{}} \cup {{k} : k \in FactKeys} \cup {FactKeys}

\* a complete payload and a payload without data
PlainMissingSets == {{}, FactKeys}

\* the snapshot after payload version v without the keys of missing was decoded
Snapshot(v, missing) ==
    [fact |-> [k \in FactKeys \ missing |-> Value(k, v)]]

----------------------------------------------------------------------------
(* The reads of YandexWeatherSensor *)

\* a sensor that reports itself healthy whatever the updater says
available_always(i) == TRUE

\* YandexWeatherSensor.available
available(i) == last_update_success

\* a lookup by subscript instead of .get: a missing key raises
native_value_subscript(i) ==
    LET self == entities[i] IN
    IF "fact" \notin DOMAIN weather_data THEN Raised("KeyError")
    ELSE Get(weather_data["fact"], self.entity_description.key, Raised("KeyError"))

\* YandexWeatherSensor.native_value; the subscript ["fact"] raises KeyError
\* when the snapshot has no such entry
native_value(i) ==
    LET self == entities[i] IN
    IF "fact" \notin DOMAIN weather_data THEN Raised("KeyError")
    ELSE Get(weather_data["fact"], self.entity_description.key, None)

\* Entity.icon, the icon of the base class: no _attr_icon is set, so it is the
\* icon of the entity description
SuperIcon(self) == self.entity_description.icon

\* an icon property without the test of the key
icon_every_sensor(i) ==
    Get(weather_data["fact"], ATTR_API_YA_CONDITION \o <<"_icon">>, None)

\* an icon property that reads the icon by subscript: a missing key raises
icon_subscript(i) ==
    LET self == entities[i] IN
    IF self.entity_description.key = ATTR_API_YA_CONDITION
    THEN Get(weather_data["fact"], ATTR_API_YA_CONDITION \o <<"_icon">>,
             Raised("KeyError"))
    ELSE SuperIcon(self)

\* YandexWeatherSensor.icon
icon(i) ==
    LET self == entities[i] IN
    IF self.entity_description.key = ATTR_API_YA_CONDITION
    THEN IF "fact" \notin DOMAIN weather_data THEN Raised("KeyError")
         ELSE Get(weather_data["fact"], ATTR_API_YA_CONDITION \o <<"_icon">>, None)
    ELSE SuperIcon(self)

----------------------------------------------------------------------------
(* The listener registry of the updater and the entity's removal callbacks *)

Callbacks == 1..Len(WEATHER_SENSORS)

\* updater.async_add_listener(callback): one more registration of callback
AddListener(ls, callback) == [ls EXCEPT ![callback] = @ + 1]

\* the handle async_add_listener returns, invoked: one registration less
RemoveListener(ls, callback) ==
    [ls EXCEPT ![callback] = IF @ > 0 THEN @ - 1 ELSE 0]

\* Entity removal: every callback registered with async_on_remove is invoked
RECURSIVE RunOnRemove(_, _)
RunOnRemove(ls, handles) ==
    IF handles = <<>> THEN ls
    ELSE RunOnRemove(RemoveListener(ls, Head(handles)), Tail(handles))

\* the removal of every entity of the set is, one after the other
RECURSIVE RunOnRemoveAll(_, _)
RunOnRemoveAll(ls, is) ==
    IF is = {} THEN ls
    ELSE LET i == CHOOSE j \in is : TRUE IN
         RunOnRemoveAll(RunOnRemove(ls, on_remove[i]), is \ {i})

Idle == [op |-> "none", sensor |-> 0, value |-> None, calls |-> 0]

----------------------------------------------------------------------------
(* Initial states *)

InitWith(entry) ==
    /\ config_entry = entry
    /\ entities = <<>>
    /\ added = {}
    /\ on_remove = [i \in Callbacks |-> <<>>]
    /\ listeners = [i \in Callbacks |-> 0]
    /\ last_update_success \in BOOLEAN
    /\ weather_data = Snapshot(1, FactKeys)
    /\ refresh_requests = 0
    /\ ret = Idle

Init == InitWith(DefaultEntry)

InitEntries == \E entry \in ConfigEntries : InitWith(entry)

----------------------------------------------------------------------------
(* Actions *)

\* async_setup_entry(hass, config_entry, async_add_entities)
async_setup_entry ==
    /\ entities = <<>>
    /\ LET made == SetupEntities(config_entry)
           failed == \E i \in DOMAIN made :
                        Raised("IndexError") \in made[i]._attr_device_info.identifiers
       IN  IF failed
           THEN /\ entities' = entities
                /\ ret' = [op |-> "async_setup_entry", sensor |-> 0,
                           value |-> Raised("IndexError"), calls |-> 0]
           ELSE /\ entities' = made
                /\ ret' = [op |-> "async_setup_entry", sensor |-> 0,
                           value |-> None, calls |-> 1]
    /\ UNCHANGED <<config_entry, added, on_remove, listeners,
                   last_update_success, weather_data, refresh_requests>>

\* a subscription whose unsubscribe handle is dropped
async_added_to_hass_leak(i) ==
    /\ i \in DOMAIN entities
    /\ i \notin added
    /\ Cardinality(added) < MaxAdded
    /\ added' = added \cup {i}
    /\ listeners' = AddListener(listeners, i)
    /\ ret' = [op |-> "async_added_to_hass", sensor |-> i, value |-> None, calls |-> 1]
    /\ UNCHANGED <<config_entry, entities, on_remove, last_update_success,
                   weather_data, refresh_requests>>

\* a subscription made twice
async_added_to_hass_twice(i) ==
    /\ i \in DOMAIN entities
    /\ i \notin added
    /\ Cardinality(added) < MaxAdded
    /\ added' = added \cup {i}
    /\ listeners' = AddListener(AddListener(listeners, i), i)
    /\ on_remove' = [on_remove EXCEPT ![i] = Append(Append(@, i), i)]
    /\ ret' = [op |-> "async_added_to_hass", sensor |-> i, value |-> None, calls |-> 2]
    /\ UNCHANGED <<config_entry, entities, last_update_success, weather_data,
                   refresh_requests>>

\* YandexWeatherSensor.async_added_to_hass, called when entity i is added
async_added_to_hass(i) ==
    /\ i \in DOMAIN entities
    /\ i \notin added
    /\ Cardinality(added) < MaxAdded
    /\ added' = added \cup {i}
    /\ listeners' = AddListener(listeners, i)
    /\ on_remove' = [on_remove EXCEPT ![i] = Append(@, i)]
    /\ ret' = [op |-> "async_added_to_hass", sensor |-> i, value |-> None, calls |-> 1]
    /\ UNCHANGED <<config_entry, entities, last_update_success, weather_data,
                   refresh_requests>>

\* Entity.async_remove of entity i: the async_on_remove callbacks run
async_remove(i) ==
    /\ i \in added
    /\ added' = added \ {i}
    /\ listeners' = RunOnRemove(listeners, on_remove[i])
    /\ on_remove' = [on_remove EXCEPT ![i] = <<>>]
    /\ ret' = [op |-> "async_remove", sensor |-> i, value |-> None,
               calls |-> Len(on_remove[i])]
    /\ UNCHANGED <<config_entry, entities, last_update_success, weather_data,
                   refresh_requests>>

\* unload of the config entry: every added entity is removed, the instances go
async_unload_entry ==
    /\ entities # <<>>
    /\ entities' = <<>>
    /\ added' = {}
    /\ listeners' = RunOnRemoveAll(listeners, added)
    /\ on_remove' = [i \in Callbacks |-> IF i \in added THEN <<>> ELSE on_remove[i]]
    /\ ret' = [op |-> "async_unload_entry", sensor |-> 0, value |-> None, calls |-> 0]
    /\ UNCHANGED <<config_entry, last_update_success, weather_data, refresh_requests>>

\* an update that asks for the refresh twice
async_update_twice(i) ==
    /\ i \in DOMAIN entities
    /\ refresh_requests < MaxRequests
    /\ refresh_requests' = refresh_requests + 2
    /\ ret' = [op |-> "async_update", sensor |-> i, value |-> None, calls |-> 2]
    /\ UNCHANGED <<config_entry, entities, added, on_remove, listeners,
                   last_update_success, weather_data>>

\* YandexWeatherSensor.async_update of entity i
async_update(i) ==
    /\ i \in DOMAIN entities
    /\ refresh_requests < MaxRequests
    /\ refresh_requests' = refresh_requests + 1
    /\ ret' = [op |-> "async_update", sensor |-> i, value |-> None, calls |-> 1]
    /\ UNCHANGED <<config_entry, entities, added, on_remove, listeners,
                   last_update_success, weather_data>>

\* the updater fetched and decoded a payload: the snapshot is replaced
refresh_succeeded(v, missing) ==
    /\ weather_data' = Snapshot(v, missing)
    /\ last_update_success' = TRUE
    /\ refresh_requests' = 0
    /\ ret' = [op |-> "refresh", sensor |-> 0, value |-> None, calls |-> 0]
    /\ UNCHANGED <<config_entry, entities, added, on_remove, listeners>>

\* the updater's fetch failed: the snapshot stays, the flag drops
refresh_failed ==
    /\ last_update_success' = FALSE
    /\ refresh_requests' = 0
    /\ ret' = [op |-> "refresh", sensor |-> 0, value |-> None, calls |-> 0]
    /\ UNCHANGED <<config_entry, entities, added, on_remove, listeners, weather_data>>

\* the updater calls every registered listener; each call is one
\* async_write_ha_state of that entity
notify_listeners ==
    /\ ret' = [op |-> "notify", sensor |-> 0, value |-> None, calls |-> listeners]
    /\ UNCHANGED <<config_entry, entities, added, on_remove, listeners,
                   last_update_success, weather_data, refresh_requests>>

\* hass reads the properties of entity i
read_available(i) ==
    /\ i \in DOMAIN entities
    /\ ret' = [op |-> "available", sensor |-> i, value |-> available(i), calls |-> 0]
    /\ UNCHANGED <<config_entry, entities, added, on_remove, listeners,
                   last_update_success, weather_data, refresh_requests>>

read_native_value(i) ==
    /\ i \in DOMAIN entities
    /\ ret' = [op |-> "native_value", sensor |-> i, value |-> native_value(i), calls |-> 0]
    /\ UNCHANGED <<config_entry, entities, added, on_remove, listeners,
                   last_update_success, weather_data, refresh_requests>>

read_icon(i) ==
    /\ i \in DOMAIN entities
    /\ ret' = [op |-> "icon", sensor |-> i, value |-> icon(i), calls |-> 0]
    /\ UNCHANGED <<config_entry, entities, added, on_remove, listeners,
                   last_update_success, weather_data, refresh_requests>>

\* the lifecycle of the platform, of its entities and of the updater
Next ==
    \/ async_setup_entry
    \/ async_unload_entry
    \/ \E i \in Callbacks : async_added_to_hass(i)
    \/ \E i \in Callbacks : async_remove(i)
    \/ \E i \in Callbacks : async_update(i)
    \/ \E v \in 1..MaxVersion, missing \in PlainMissingSets : refresh_succeeded(v, missing)
    \/ refresh_failed
    \/ notify_listeners

Spec == Init /\ [][Next]_vars

\* the reads of the entities against every snapshot the updater can hold
NextReads ==
    \/ async_setup_entry
    \/ \E v \in 1..MaxVersion, missing \in MissingSets : refresh_succeeded(v, missing)
    \/ refresh_failed
    \/ \E i \in Callbacks : read_available(i)
    \/ \E i \in Callbacks : read_native_value(i)
    \/ \E i \in Callbacks : read_icon(i)

SpecReads == Init /\ [][NextReads]_vars

\* setup and unload alone, for every config entry
NextEntries ==
    \/ async_setup_entry
    \/ async_unload_entry

SpecEntries == InitEntries /\ [][NextEntries]_vars

----------------------------------------------------------------------------
(* Properties *)

IsRaised(x) == x[1][1] = "raised"

\* the descriptor key of entity i
KeyOf(i) == WEATHER_SENSORS[i].key

\* C1: an attached sensor has exactly one subscription in the updater's
\* listener registry and a detached one has none; an attach adds one listener
\* of that sensor, a detach removes that listener and no other.
C1_OneListenerWhileAttached ==
    /\ [](\A i \in Callbacks :
            /\ listeners[i] = (IF i \in added THEN 1 ELSE 0)
            /\ Len(on_remove[i]) = (IF i \in added THEN 1 ELSE 0))
    /\ [][/\ ret'.op = "async_added_to_hass" =>
                listeners' = [listeners EXCEPT ![ret'.sensor] = @ + 1]
          /\ ret'.op = "async_remove" =>
                listeners' = [listeners EXCEPT ![ret'.sensor] = @ - 1]]_vars

\* a sensor was detached while others stay attached
C1_Witness ==
    /\ ret.op = "async_remove"
    /\ ret.calls = 1
    /\ listeners[ret.sensor] = 0
    /\ Cardinality(added) = 2
    /\ \A i \in added : listeners[i] = 1

\* C2: available of every sensor is the updater's last_update_success flag,
\* in every state and in every read.
C2_AvailableMirrorsFlag ==
    /\ \A i \in DOMAIN entities : available(i) = last_update_success
    /\ ret.op = "available" => ret.value = last_update_success

\* available was read as false after a payload had been decoded once
C2_Witness ==
    /\ ret.op = "available"
    /\ ret.value = FALSE
    /\ DOMAIN weather_data["fact"] # {}

\* C3: native_value is the value stored under the sensor's key in
\* weather_data["fact"], and None when the key is missing, in every state
\* (so also right after a refresh) and in every read.
C3_NativeValueIsSnapshotValue ==
    /\ \A i \in DOMAIN entities :
          native_value(i) = IF KeyOf(i) \in DOMAIN weather_data["fact"]
                            THEN weather_data["fact"][KeyOf(i)]
                            ELSE None
    /\ ret.op = "native_value" =>
          ret.value = IF KeyOf(ret.sensor) \in DOMAIN weather_data["fact"]
                      THEN weather_data["fact"][KeyOf(ret.sensor)]
                      ELSE None

\* the value of a later payload version was read
C3_Witness ==
    /\ ret.op = "native_value"
    /\ ret.value = Value(KeyOf(ret.sensor), 2)

\* C4: the icon of the condition sensor is the snapshot's condition icon when
\* present and the icon of the base class otherwise; the icon of every other
\* sensor is the icon of the base class.
C4_IconOfConditionSensor ==
    ret.op = "icon" =>
        LET self == entities[ret.sensor]
            icon_key == ATTR_API_YA_CONDITION \o <<"_icon">> IN
        ret.value =
            IF KeyOf(ret.sensor) = ATTR_API_YA_CONDITION
                  /\ icon_key \in DOMAIN weather_data["fact"]
            THEN weather_data["fact"][icon_key]
            ELSE SuperIcon(self)

\* the condition sensor's icon was read from a snapshot holding the icon
C4_Witness ==
    /\ ret.op = "icon"
    /\ KeyOf(ret.sensor) = ATTR_API_YA_CONDITION
    /\ ret.value = Value(ATTR_API_YA_CONDITION \o <<"_icon">>, 1)

\* C5: the unique id of the sensor built for a descriptor is
\* "{config_entry.unique_id}-{descriptor.key}", and the unique ids of the
\* sensors of one config entry are pairwise distinct.
C5_UniqueIdOfSensor ==
    entities # <<>> =>
        /\ \A i \in DOMAIN entities :
              entities[i]._attr_unique_id =
                  config_entry.unique_id \o <<Dash>> \o WEATHER_SENSORS[i].key
        /\ \A i, j \in DOMAIN entities :
              i # j => entities[i]._attr_unique_id # entities[j]._attr_unique_id

\* the sensors of an entry whose unique id holds dashes were built
C5_Witness ==
    /\ ret.op = "async_setup_entry"
    /\ Len(entities) = Len(WEATHER_SENSORS)
    /\ config_entry.unique_id = <<Dash, "a", Dash, "a">>

\* C6: no read raises: native_value and icon give a value or None, available
\* gives a boolean, whatever the updater's state.
C6_ReadsNeverRaise ==
    /\ \A i \in DOMAIN entities :
          /\ ~IsRaised(native_value(i))
          /\ ~IsRaised(icon(i))
          /\ available(i) \in BOOLEAN
    /\ ret.op \in {"native_value", "icon"} => ~IsRaised(ret.value)
    /\ ret.op = "available" => ret.value \in BOOLEAN

\* a value was read from a snapshot without data while the flag is down
C6_Witness ==
    /\ ret.op = "native_value"
    /\ ret.value = None
    /\ DOMAIN weather_data["fact"] = {}
    /\ ~last_update_success

\* C7: an async_update makes one async_request_refresh and changes nothing
\* else; only the updater's refresh writes weather_data.
C7_UpdateOnlyRequestsRefresh ==
    [][/\ ret'.op = "async_update" =>
            /\ refresh_requests' = refresh_requests + 1
            /\ ret'.calls = 1
            /\ UNCHANGED <<config_entry, entities, added, on_remove, listeners,
                           last_update_success, weather_data>>
       /\ weather_data' # weather_data => ret'.op = "refresh"]_vars

\* an attached sensor asked for a refresh while the snapshot holds data
C7_Witness ==
    /\ ret.op = "async_update"
    /\ ret.sensor \in added
    /\ refresh_requests = 1
    /\ DOMAIN weather_data["fact"] # {}

\* C8: a notification re-renders every attached sensor once and no other
\* sensor.
C8_NotifyRendersAttachedOnce ==
    ret.op = "notify" =>
        \A i \in Callbacks : ret.calls[i] = (IF i \in added THEN 1 ELSE 0)

\* a notification reached several attached sensors
C8_Witness ==
    /\ ret.op = "notify"
    /\ Cardinality(added) = 2
    /\ \E i \in added : ret.calls[i] = 1

\* C9: setup builds ten sensors, one per descriptor in table order, all on the
\* updater of the config entry, and hands them over in one async_add_entities
\* call; afterwards only setup and unload change the list of instances.
C9_TenSensorsOnce ==
    /\ [](entities # <<>> =>
            /\ Len(entities) = 10
            /\ \A i \in DOMAIN entities :
                  /\ entities[i].entity_description = WEATHER_SENSORS[i]
                  /\ entities[i]._updater = HassData[config_entry.entry_id][UPDATER])
    /\ [](ret.op = "async_setup_entry" => ret.calls = 1 /\ entities # <<>>)
    /\ [][entities' # entities =>
            ret'.op \in {"async_setup_entry", "async_unload_entry"}]_vars

\* the ten sensors are in place after refreshes and notifications
C9_Witness ==
    /\ Len(entities) = 10
    /\ ret.op = "notify"
    /\ added # {}
    /\ DOMAIN weather_data["fact"] # {}

\* C10: the sensors of one config entry carry one device identifier, whatever
\* the entry's unique id, and their construction never fails.
C10_OneDeviceIdentifier ==
    /\ ret.op = "async_setup_entry" => ret.value = None
    /\ \A i, j \in DOMAIN entities :
          entities[i]._attr_device_info.identifiers
              = entities[j]._attr_device_info.identifiers

====
